---- MODULE Spec2Model ----
(***************************************************************************)
(* Model of project_importer/import_issues_to_project.py: a one-shot batch *)
(* importer that creates one issue per titled CSV row, attaches it to a    *)
(* project board and sets its Status field.  The variant of the program    *)
(* that also links parents to children (the Tasklist Appender) runs a      *)
(* post-pass after the row loop.                                           *)
(*                                                                         *)
(* Text values are sequences of one-character strings, so that strip(),    *)
(* lower() and split(",") are computed, not assumed.                       *)
(***************************************************************************)
EXTENDS Naturals, Integers, Sequences, FiniteSets, TLC

(***************************************************************************)
(* Bounds of the model.                                                    *)
(***************************************************************************)
MaxRows == 2

\* Records read in the runs that exercise the tasklist post-pass.
MaxTasklistRows == 3

(***************************************************************************)
(* Python values.                                                          *)
(***************************************************************************)
\* Python's None where a text value is expected (a cell csv.DictReader did
\* not find): a one-element tuple that is no text over the alphabet.
None == <<"None">>

NoId == "None"

Truthy(v) == v # None /\ v # <<>>

\* Python `a or b` on optional text.
Or(a, b) == IF Truthy(a) THEN a ELSE b

Whitespace == {" "}

LowerChar(c) ==
    CASE c = "A" -> "a"
      [] c = "B" -> "b"
      [] c = "D" -> "d"
      [] c = "E" -> "e"
      [] c = "N" -> "n"
      [] c = "O" -> "o"
      [] c = "S" -> "s"
      [] c = "T" -> "t"
      [] c = "U" -> "u"
      [] c = "X" -> "x"
      [] OTHER -> c

\* str.lower()
Lower(s) == [i \in 1..Len(s) |-> LowerChar(s[i])]

RECURSIVE LStrip(_)
LStrip(s) ==
    IF s = <<>> THEN <<>>
    ELSE IF Head(s) \in Whitespace THEN LStrip(Tail(s)) ELSE s

RECURSIVE RStrip(_)
RStrip(s) ==
    IF s = <<>> THEN <<>>
    ELSE IF s[Len(s)] \in Whitespace THEN RStrip(SubSeq(s, 1, Len(s) - 1)) ELSE s

\* str.strip()
Strip(s) == RStrip(LStrip(s))

\* str.split(","): the pieces between commas, empty pieces included.
RECURSIVE SplitFrom(_, _, _)
SplitFrom(s, i, piece) ==
    IF i > Len(s) THEN <<piece>>
    ELSE IF s[i] = "," THEN <<piece>> \o SplitFrom(s, i + 1, <<>>)
    ELSE SplitFrom(s, i + 1, Append(piece, s[i]))

Split(s) == SplitFrom(s, 1, <<>>)

RECURSIVE SelectStripped(_)
SelectStripped(pieces) ==
    IF pieces = <<>> THEN <<>>
    ELSE IF Strip(Head(pieces)) # <<>>
         THEN <<Strip(Head(pieces))>> \o SelectStripped(Tail(pieces))
         ELSE SelectStripped(Tail(pieces))

\* The pieces stripped but the empty ones kept.
ParseLabels_KeepEmpty(labels_csv) ==
    IF labels_csv # <<>>
      THEN [i \in 1..Len(Split(labels_csv)) |-> Strip(Split(labels_csv)[i])]
      ELSE <<>>

\* main, line 197: [l.strip() for l in labels_csv.split(",") if l.strip()]
ParseLabels(labels_csv) ==
    IF labels_csv # <<>> THEN SelectStripped(Split(labels_csv)) ELSE <<>>

Range(f) == {f[i] : i \in DOMAIN f}

(***************************************************************************)
(* Text literals.                                                          *)
(***************************************************************************)
Todo == <<"T", "o", "d", "o">>
Done == <<"D", "o", "n", "e">>
StatusLit == <<"s", "t", "a", "t", "u", "s">>

Txt_A == <<"A">>
Txt_B == <<"B">>
Txt_C == <<"C">>
Txt_Q == <<"Q">>
Txt_x == <<"x">>
Txt_y == <<"y">>

(***************************************************************************)
(* The remote service's state the run may meet.                            *)
(***************************************************************************)
\* requests' response to a query/mutation call: HTTP status and whether the
\* payload carries an "errors" field.
GqlResponses ==
    { [status |-> 200, errors |-> FALSE],
      [status |-> 200, errors |-> TRUE],
      [status |-> 502, errors |-> FALSE] }

\* requests' response to a resource call.
RestResponses ==
    { [status |-> 200, errors |-> FALSE],
      [status |-> 400, errors |-> FALSE],
      [status |-> 503, errors |-> FALSE] }

TitleField == [id |-> "F_title", name |-> <<"T", "i", "t", "l", "e">>,
               hasOptions |-> FALSE, options |-> <<>>]

\* A project whose Status field stores its option names with other case and
\* surrounding blanks than the rows use.
ProjGood ==
    [id |-> "PVT_good",
     fields |-> << TitleField,
                   [id |-> "F_status", name |-> <<"S", "t", "a", "t", "u", "s">>,
                    hasOptions |-> TRUE,
                    options |-> << [id |-> "opt_todo", name |-> <<"T", "O", "D", "O">>],
                                   [id |-> "opt_done", name |-> <<" ", "D", "o", "n", "e", " ">>] >>] >>]

\* A project with two options whose names differ only in case.
ProjDup ==
    [id |-> "PVT_dup",
     fields |-> << [id |-> "F_status", name |-> <<"S", "T", "A", "T", "U", "S">>,
                    hasOptions |-> TRUE,
                    options |-> << [id |-> "opt_todo", name |-> Todo],
                                   [id |-> "opt_done", name |-> Done],
                                   [id |-> "opt_DONE", name |-> <<"D", "O", "N", "E">>] >>] >>]

\* A project with a text field called Status and a single-select field of
\* another name: no field is both.
ProjNoStatus ==
    [id |-> "PVT_nostatus",
     fields |-> << [id |-> "F_text", name |-> <<"S", "t", "a", "t", "u", "s">>,
                    hasOptions |-> FALSE, options |-> <<>>],
                   [id |-> "F_stage", name |-> <<"S", "t", "a", "g", "e">>,
                    hasOptions |-> TRUE,
                    options |-> << [id |-> "opt_todo", name |-> Todo] >>] >>]

NoProject == [id |-> NoId, fields |-> <<>>]

\* What the "data" of a namespace query holds: the namespace key absent, the
\* namespace null, the namespace present with projectV2 null, or a project.
NamespaceResults(projects) ==
    { [kind |-> k, proj |-> NoProject] : k \in {"absent", "null", "noproject"} }
      \cup { [kind |-> "project", proj |-> p] : p \in projects }

\* The owner login is a user with the project, or it is not and the
\* organization namespace decides.
OwnerPool ==
    { [user |-> u, org |-> [kind |-> "null", proj |-> NoProject]] :
          u \in { r \in NamespaceResults({ProjGood, ProjDup, ProjNoStatus}) :
                      r.kind = "project" } }
      \cup { [user |-> u, org |-> o] :
                u \in { r \in NamespaceResults({}) : TRUE },
                o \in NamespaceResults({ProjGood, ProjNoStatus}) }

\* The page size the label fetch asks for.
PerPage == 100

\* Repository label states: the labels whose names the rows may use, and the
\* number of other labels in the repository.
LabelStatePool ==
    { [labels |-> {}, others |-> 0],
      [labels |-> {<<"X">>}, others |-> 0],
      [labels |-> {}, others |-> PerPage],
      [labels |-> {Txt_y}, others |-> PerPage - 1] }

(***************************************************************************)
(* Input records csv.DictReader may yield.                                 *)
(***************************************************************************)
Row(t, b, l, s, p) == [Title |-> t, Body |-> b, Labels |-> l, Status |-> s, Parent |-> p]

RowPool ==
    { Row(None, <<"b">>, Txt_x, Done, Txt_A),
      Row(<<" ">>, <<>>, Txt_x, None, None),
      Row(<<>>, <<>>, <<>>, Todo, <<>>),
      Row(Txt_A, <<" ", "b", " ">>, <<>>, None, None),
      Row(<<" ", "B", " ">>, None, Txt_x, <<" ", "d", "o", "n", "e", " ">>, Txt_A),
      Row(Txt_C, <<>>, <<" ", "x", " ", ",", ",", "y">>, <<"D", "O", "N", "E">>, <<" ", "A">>),
      Row(Txt_A, <<>>, <<"x", ",", "X">>, <<" ">>, <<>>),
      Row(Txt_B, <<"b">>, <<",">>, <<"z">>, Txt_Q),
      Row(Txt_A, <<>>, Txt_y, <<"T", "o", "D", "o">>, Txt_Q) }

(***************************************************************************)
(* State.                                                                  *)
(***************************************************************************)
VARIABLES
    owner,          \* remote: what the two namespace queries answer for the login
    repoLabels,     \* remote: names of the repository's labels the rows may name
    otherLabels,    \* remote: number of the repository's other labels
    issues,         \* remote: issues created by the run, by number
    items,          \* remote: project items, item id -> option id ("None": unset)
    linkParents,    \* which variant runs: TRUE for the one with the tasklist post-pass
    rows,           \* the records the reader has yielded so far, in file order
    pc,             \* position of main
    projectId, project, fieldId, statusOptions, \* main's locals after resolution
    cur,            \* the current row as parsed: title, body, labels, status, parent
    existing,       \* ensure_labels: lower-cased names of the fetched page
    lbIdx,          \* ensure_labels: index of the label the loop is at
    num,            \* number of the issue created for the current row
    itemId,         \* project item of the current row
    created,        \* main's counter
    titleIndex,     \* title -> issue number
    parentChildren, \* ordered mapping parent title -> children (number, title)
    parIdx,         \* tasklist post-pass: index of the parent group
    fetchedBody,    \* tasklist post-pass: the parent's body as fetched
    exitCode,       \* "running", 0 or 1
    cause,          \* why the run terminated
    log             \* every remote call issued, in order, with its response

vars == << owner, repoLabels, otherLabels, issues, items, linkParents, rows, pc,
           projectId, project, fieldId, statusOptions, cur, existing, lbIdx, num, itemId,
           created, titleIndex, parentChildren, parIdx, fetchedBody, exitCode,
           cause, log >>

\* Groups of variables, for UNCHANGED.
fixed == << owner, otherLabels, linkParents >>
resolved == << projectId, project, fieldId, statusOptions >>
rowState == << cur, existing, lbIdx, num, itemId >>
tally == << created, titleIndex, parentChildren >>
postPass == << parIdx, fetchedBody >>
world == << repoLabels, issues, items >>

NoRow == [title |-> <<>>, body |-> <<>>, labels |-> <<>>, status |-> <<>>, parent |-> <<>>]

\* The state when main reaches line 182, the environment read and complete.
InitWith(owners, labelStates, variants) ==
    /\ owner \in owners
    /\ \E st \in labelStates : repoLabels = st.labels /\ otherLabels = st.others
    /\ issues = <<>>
    /\ items = <<>>
    /\ linkParents \in variants
    /\ rows = <<>>
    /\ pc = "q_user"
    /\ projectId = NoId
    /\ project = NoProject
    /\ fieldId = NoId
    /\ statusOptions = <<>>
    /\ cur = NoRow
    /\ existing = {}
    /\ lbIdx = 0
    /\ num = 0
    /\ itemId = 0
    /\ created = 0
    /\ titleIndex = <<>>
    /\ parentChildren = <<>>
    /\ parIdx = 0
    /\ fetchedBody = <<>>
    /\ exitCode = "running"
    /\ cause = "none"
    /\ log = <<>>

Init == InitWith(OwnerPool, LabelStatePool, BOOLEAN)

(***************************************************************************)
(* Transport layer.                                                        *)
(***************************************************************************)
\* graphql without its check of the "errors" field.
graphql_ok_StatusOnly(r) == r.status = 200

\* graphql returns data: the status is 200 and the payload has no "errors".
graphql_ok(r) == r.status = 200 /\ ~r.errors

\* rest returns the response: the status is below 400.
rest_ok(r) == r.status < 400

\* A remote call as issued: the operation, the row it is for (0: none), the
\* issue it addresses (0: none), what it sends, and the response.
Call(op, row, issue, arg, rsp) ==
    [op |-> op, row |-> row, issue |-> issue, arg |-> arg, rsp |-> rsp]

\* die: log the message and sys.exit(1).  An uncaught exception ends the
\* interpreter with status 1 as well.
die(why) ==
    /\ pc' = "exit"
    /\ exitCode' = 1
    /\ cause' = why

goto(next) ==
    /\ pc' = next
    /\ UNCHANGED << exitCode, cause >>

(***************************************************************************)
(* Project/Field resolver.                                                 *)
(***************************************************************************)
\* data.get(ns, {}).get("projectV2"): the default {} stands in only for an
\* absent key; a null namespace is None, and None has no get.
NamespaceRaises(res) == res.kind = "null"

NamespaceProject(res) == IF res.kind = "project" THEN res.proj ELSE NoProject

\* find_project, the user-namespace query.
FindProjectUser ==
    /\ pc = "q_user"
    /\ \E rsp \in GqlResponses :
         /\ log' = Append(log, Call("q_user", 0, 0, <<>>, rsp))
         /\ IF ~graphql_ok(rsp)
              THEN die("transport") /\ UNCHANGED << projectId, project >>
            ELSE IF NamespaceRaises(owner.user)
              THEN die("AttributeError") /\ UNCHANGED << projectId, project >>
            ELSE IF NamespaceProject(owner.user) # NoProject
              THEN /\ projectId' = NamespaceProject(owner.user).id
                   /\ project' = NamespaceProject(owner.user)
                   /\ goto("status_field")
            ELSE goto("q_org") /\ UNCHANGED << projectId, project >>
    /\ UNCHANGED << fixed, world, rows, fieldId, statusOptions, rowState, tally, postPass >>

\* find_project, the organization-namespace query.
FindProjectOrg ==
    /\ pc = "q_org"
    /\ \E rsp \in GqlResponses :
         /\ log' = Append(log, Call("q_org", 0, 0, <<>>, rsp))
         /\ IF ~graphql_ok(rsp)
              THEN die("transport") /\ UNCHANGED << projectId, project >>
            ELSE IF NamespaceRaises(owner.org)
              THEN die("AttributeError") /\ UNCHANGED << projectId, project >>
            ELSE IF NamespaceProject(owner.org) # NoProject
              THEN /\ projectId' = NamespaceProject(owner.org).id
                   /\ project' = NamespaceProject(owner.org)
                   /\ goto("status_field")
            ELSE die("project not found") /\ UNCHANGED << projectId, project >>
    /\ UNCHANGED << fixed, world, rows, fieldId, statusOptions, rowState, tally, postPass >>

\* get_status_field_info: index of the first field named "status" (any case)
\* that has options; 0 when there is none.
RECURSIVE StatusFieldFrom(_, _)
StatusFieldFrom(fields, i) ==
    IF i > Len(fields) THEN 0
    ELSE IF Lower(fields[i].name) = StatusLit /\ fields[i].hasOptions THEN i
    ELSE StatusFieldFrom(fields, i + 1)

\* The first field with options, whatever its name.
StatusFieldIndex_AnySelect(fields) ==
    IF \E i \in 1..Len(fields) : fields[i].hasOptions
      THEN CHOOSE i \in 1..Len(fields) :
              fields[i].hasOptions /\ \A j \in 1..(i - 1) : ~fields[j].hasOptions
      ELSE 0

StatusFieldIndex(fields) == StatusFieldFrom(fields, 1)

\* The key an option name is stored under.
OptionKey(name) == Lower(Strip(name))

\* options[opt["name"].strip().lower()] = opt["id"], option after option: a
\* later option replaces an earlier one of the same key.
RECURSIVE OptionsMap(_)
OptionsMap(opts) ==
    IF opts = <<>> THEN <<>>
    ELSE LET earlier == OptionsMap(SubSeq(opts, 1, Len(opts) - 1))
             last == opts[Len(opts)]
         IN  [k \in DOMAIN earlier \cup {OptionKey(last.name)} |->
                 IF k = OptionKey(last.name) THEN last.id ELSE earlier[k]]

GetStatusFieldInfo ==
    /\ pc = "status_field"
    /\ LET i == StatusFieldIndex(project.fields)
       IN IF i = 0
            THEN die("no status field") /\ UNCHANGED << fieldId, statusOptions >>
            ELSE /\ fieldId' = project.fields[i].id
                 /\ statusOptions' = OptionsMap(project.fields[i].options)
                 /\ goto("next_row")
    /\ UNCHANGED << fixed, world, rows, projectId, project, rowState, tally, postPass, log >>

(***************************************************************************)
(* Row orchestrator.                                                       *)
(***************************************************************************)
\* The title taken without strip(): a blank title counts as a title.
ParseTitle_NoStrip(row) == Or(row.Title, <<>>)

\* main, line 190: (row.get("Title") or "").strip()
ParseTitle(row) == Strip(Or(row.Title, <<>>))

\* main, lines 194-197, and the Parent cell of the parent-linking variant.
ParseRow(row) ==
    [title  |-> ParseTitle(row),
     body   |-> Strip(Or(row.Body, <<>>)),
     labels |-> ParseLabels(Strip(Or(row.Labels, <<>>))),
     status |-> Or(Strip(Or(row.Status, Todo)), Todo),
     parent |-> Strip(Or(row.Parent, <<>>))]

\* for row in reader: the reader yields the next record.  A record without
\* a title is skipped; otherwise create_issue starts, with ensure_labels
\* first when the row has labels.
ReadRowFrom(pool, maxRows) ==
    /\ pc = "next_row"
    /\ Len(rows) < maxRows
    /\ \E row \in pool :
         /\ rows' = Append(rows, row)
         /\ IF ParseTitle(row) = <<>>
              THEN goto("next_row") /\ UNCHANGED cur
              ELSE /\ cur' = ParseRow(row)
                   /\ goto(IF ParseRow(row).labels # <<>> THEN "get_labels" ELSE "post_issue")
    /\ UNCHANGED << fixed, world, resolved, existing, lbIdx, num, itemId, tally,
                    postPass, log >>

ReadRow == ReadRowFrom(RowPool, MaxRows)

\* ensure_labels, line 126: the set the requested names are looked up in.
ExistingNames(page) == {Lower(n) : n \in page}

\* The comparison made without lower().
LabelMissing_NoLower(lb, names) == Strip(lb) \notin names

\* ensure_labels, line 128: must this label be created?
LabelMissing(lb, names) == Lower(Strip(lb)) \notin names

\* The pages GET labels?per_page=100 may return: all the labels when they
\* fit one page, else PerPage of them, whichever the service lists first.
Pages(labels, others) ==
    IF Cardinality(labels) + others <= PerPage THEN {labels}
    ELSE { pg \in SUBSET labels :
               /\ Cardinality(pg) <= PerPage
               /\ PerPage - Cardinality(pg) <= others }

\* Index of the first label at or after i that must be created; 0 if none.
RECURSIVE NextMissing(_, _, _)
NextMissing(labels, i, names) ==
    IF i > Len(labels) THEN 0
    ELSE IF LabelMissing(labels[i], names) THEN i
    ELSE NextMissing(labels, i + 1, names)

\* ensure_labels, lines 125-126: fetch the existing labels.  The log keeps,
\* with the call, how many labels the repository held when it was made.
EnsureLabelsFetch ==
    /\ pc = "get_labels"
    /\ \E rsp \in RestResponses, pg \in Pages(repoLabels, otherLabels) :
         /\ log' = Append(log, Call("get_labels", Len(rows), 0,
                                    << Cardinality(repoLabels) + otherLabels >>, rsp))
         /\ IF ~rest_ok(rsp)
              THEN die("transport") /\ UNCHANGED << existing, lbIdx >>
              ELSE /\ existing' = ExistingNames(pg)
                   /\ lbIdx' = NextMissing(cur.labels, 1, ExistingNames(pg))
                   /\ goto(IF NextMissing(cur.labels, 1, ExistingNames(pg)) # 0
                           THEN "post_label" ELSE "post_issue")
    /\ UNCHANGED << fixed, world, rows, resolved, cur, num, itemId, tally, postPass >>

\* ensure_labels, lines 127-130: create the next label not in `existing`
\* (which the loop never updates).
EnsureLabelsCreate ==
    /\ pc = "post_label"
    /\ \E rsp \in RestResponses :
         /\ log' = Append(log, Call("post_label", Len(rows), 0, Strip(cur.labels[lbIdx]), rsp))
         /\ IF ~rest_ok(rsp)
              THEN die("transport") /\ UNCHANGED << repoLabels, lbIdx >>
              ELSE /\ repoLabels' = repoLabels \cup {Strip(cur.labels[lbIdx])}
                   /\ lbIdx' = NextMissing(cur.labels, lbIdx + 1, existing)
                   /\ goto(IF NextMissing(cur.labels, lbIdx + 1, existing) # 0
                           THEN "post_label" ELSE "post_issue")
    /\ UNCHANGED << fixed, issues, items, rows, resolved, cur, existing, num, itemId,
                    tally, postPass >>

\* create_issue, lines 135-140: POST the issue.
CreateIssue ==
    /\ pc = "post_issue"
    /\ \E rsp \in RestResponses :
         /\ log' = Append(log, Call("post_issue", Len(rows), 0, cur.title, rsp))
         /\ IF ~rest_ok(rsp)
              THEN die("transport") /\ UNCHANGED << issues, num >>
              ELSE /\ issues' = Append(issues, [title |-> cur.title, body |-> cur.body,
                                                labels |-> cur.labels])
                   /\ num' = Len(issues) + 1
                   /\ goto("add_item")
    /\ UNCHANGED << fixed, repoLabels, items, rows, resolved, cur, existing, lbIdx,
                    itemId, tally, postPass >>

\* add_issue_to_project.
AddIssueToProject ==
    /\ pc = "add_item"
    /\ \E rsp \in GqlResponses :
         /\ log' = Append(log, Call("add_item", Len(rows), num, <<>>, rsp))
         /\ IF ~graphql_ok(rsp)
              THEN die("transport") /\ UNCHANGED << items, itemId >>
              ELSE /\ items' = Append(items, NoId)
                   /\ itemId' = Len(items) + 1
                   /\ goto("set_status")
    /\ UNCHANGED << fixed, repoLabels, issues, rows, resolved, cur, existing, lbIdx,
                    num, tally, postPass >>

\* The key taken without lower().
StatusKey_NoLower(status_name) == Strip(Or(status_name, Todo))

\* set_status, line 154: the key the row's status is looked up under.
StatusKey(status_name) == Lower(Strip(Or(status_name, Todo)))

\* A lookup that falls back to some option when the key is unknown.
OptionId_Fallback(options, key) ==
    IF key \in DOMAIN options THEN options[key]
    ELSE IF DOMAIN options # {} THEN options[CHOOSE k \in DOMAIN options : TRUE]
    ELSE NoId

\* status_options.get(key)
OptionId(options, key) == IF key \in DOMAIN options THEN options[key] ELSE NoId

\* The title index of the parent-linking variant: title -> issue number.
IndexTitle(index, title, n) ==
    [t \in DOMAIN index \cup {title} |-> IF t = title THEN n ELSE index[t]]

RECURSIVE ParentPos(_, _, _)
ParentPos(groups, parent, i) ==
    IF i > Len(groups) THEN 0
    ELSE IF groups[i].parent = parent THEN i
    ELSE ParentPos(groups, parent, i + 1)

\* The mapping with a new child put first in its parent's list.
AddChild_Prepend(groups, parent, n, title) ==
    IF parent = <<>> THEN groups
    ELSE LET i == ParentPos(groups, parent, 1)
             child == [number |-> n, title |-> title]
         IN IF i = 0
              THEN Append(groups, [parent |-> parent, children |-> << child >>])
              ELSE [groups EXCEPT ![i].children = << child >> \o @]

\* The parent -> children mapping of the parent-linking variant, in the order
\* the parents were first named; a child is appended to its parent's list.
AddChild(groups, parent, n, title) ==
    IF parent = <<>> THEN groups
    ELSE LET i == ParentPos(groups, parent, 1)
             child == [number |-> n, title |-> title]
         IN IF i = 0
              THEN Append(groups, [parent |-> parent, children |-> << child >>])
              ELSE [groups EXCEPT ![i].children = Append(@, child)]

\* set_status, then main's bookkeeping for the row (created += 1, and in the
\* parent-linking variant the two indices).
SetStatus ==
    /\ pc = "set_status"
    /\ IF OptionId(statusOptions, StatusKey(cur.status)) = NoId
         THEN /\ die("status not found")
              /\ UNCHANGED << items, tally, log >>
         ELSE \E rsp \in GqlResponses :
                /\ log' = Append(log, Call("set_field", Len(rows), num,
                                   << OptionId(statusOptions, StatusKey(cur.status)) >>, rsp))
                /\ IF ~graphql_ok(rsp)
                     THEN die("transport") /\ UNCHANGED << items, tally >>
                     ELSE /\ items' = [items EXCEPT ![itemId] =
                                          OptionId(statusOptions, StatusKey(cur.status))]
                          /\ created' = created + 1
                          /\ IF linkParents
                               THEN /\ titleIndex' = IndexTitle(titleIndex, cur.title, num)
                                    /\ parentChildren' =
                                          AddChild(parentChildren, cur.parent, num, cur.title)
                               ELSE UNCHANGED << titleIndex, parentChildren >>
                          /\ goto("next_row")
    /\ UNCHANGED << fixed, repoLabels, issues, rows, resolved, rowState, postPass >>

\* The reader is exhausted: the plain variant logs "Done" and returns; the
\* parent-linking variant starts its post-pass.
EndOfFile ==
    /\ pc = "next_row"
    /\ IF linkParents
         THEN /\ pc' = "tasklist"
              /\ parIdx' = 1
              /\ UNCHANGED << exitCode, cause >>
         ELSE /\ pc' = "done"
              /\ exitCode' = 0
              /\ UNCHANGED << cause, parIdx >>
    /\ UNCHANGED << fixed, world, rows, resolved, rowState, tally, fetchedBody, log >>

(***************************************************************************)
(* Tasklist appender (parent-linking variant).                             *)
(***************************************************************************)
SubtasksHeader == << "\n\n## Subtasks\n" >>

\* "- [ ] #<number> <dash> <title>\n" per child (the dash written in ASCII).
RECURSIVE ChecklistLines(_)
ChecklistLines(children) ==
    IF children = <<>> THEN <<>>
    ELSE << "- [ ] #", ToString(Head(children).number), " - " >>
           \o Head(children).title \o << "\n" >> \o ChecklistLines(Tail(children))

\* The body written back: the fetched body, the header, one line per child.
TasklistBody(body, children) == body \o SubtasksHeader \o ChecklistLines(children)

\* Next parent group: done when none is left, fatal when the parent's title
\* is not in the title index.
TasklistLookup ==
    /\ pc = "tasklist"
    /\ IF parIdx > Len(parentChildren)
         THEN /\ pc' = "done"
              /\ exitCode' = 0
              /\ UNCHANGED cause
         ELSE IF parentChildren[parIdx].parent \notin DOMAIN titleIndex
           THEN die("parent not found")
           ELSE goto("get_issue")
    /\ UNCHANGED << fixed, world, rows, resolved, rowState, tally, postPass, log >>

ParentNumber == titleIndex[parentChildren[parIdx].parent]

\* Fetch the parent issue's current body.
TasklistFetch ==
    /\ pc = "get_issue"
    /\ \E rsp \in RestResponses :
         /\ log' = Append(log, Call("get_issue", 0, ParentNumber, <<>>, rsp))
         /\ IF ~rest_ok(rsp)
              THEN die("transport") /\ UNCHANGED fetchedBody
              ELSE /\ fetchedBody' = issues[ParentNumber].body
                   /\ goto("patch_issue")
    /\ UNCHANGED << fixed, world, rows, resolved, rowState, tally, parIdx >>

\* Write the body with the checklist appended back.
TasklistUpdate ==
    /\ pc = "patch_issue"
    /\ \E rsp \in RestResponses :
         /\ log' = Append(log, Call("patch_issue", 0, ParentNumber,
                            TasklistBody(fetchedBody, parentChildren[parIdx].children), rsp))
         /\ IF ~rest_ok(rsp)
              THEN die("transport") /\ UNCHANGED << issues, parIdx >>
              ELSE /\ issues' = [issues EXCEPT ![ParentNumber].body =
                                    TasklistBody(fetchedBody, parentChildren[parIdx].children)]
                   /\ parIdx' = parIdx + 1
                   /\ goto("tasklist")
    /\ UNCHANGED << fixed, repoLabels, items, rows, resolved, rowState, tally, fetchedBody >>

(***************************************************************************)
(* The program.                                                            *)
(***************************************************************************)
Next ==
    \/ FindProjectUser
    \/ FindProjectOrg
    \/ GetStatusFieldInfo
    \/ ReadRow
    \/ EnsureLabelsFetch
    \/ EnsureLabelsCreate
    \/ CreateIssue
    \/ AddIssueToProject
    \/ SetStatus
    \/ EndOfFile
    \/ TasklistLookup
    \/ TasklistFetch
    \/ TasklistUpdate

Spec == Init /\ [][Next]_vars

(***************************************************************************)
(* The parent-linking variant alone, on inputs about parents and children. *)
(***************************************************************************)
TasklistOwnerPool ==
    { [user |-> [kind |-> "project", proj |-> ProjGood],
       org |-> [kind |-> "null", proj |-> NoProject]],
      [user |-> [kind |-> "noproject", proj |-> NoProject],
       org |-> [kind |-> "project", proj |-> ProjGood]] }

TasklistRowPool ==
    { Row(<<" ">>, <<>>, Txt_x, None, Txt_A),
      Row(Txt_A, <<" ", "b", " ">>, <<>>, None, None),
      Row(<<" ", "B", " ">>, None, Txt_x, <<" ", "d", "o", "n", "e", " ">>, Txt_A),
      Row(Txt_C, <<>>, <<" ", "x", " ", ",", ",", "y">>, <<"D", "O", "N", "E">>, <<" ", "A">>),
      Row(Txt_B, <<"b">>, <<>>, <<>>, Txt_B),
      Row(Txt_A, <<>>, <<>>, <<"T", "o", "D", "o">>, Txt_Q) }

TasklistInit == InitWith(TasklistOwnerPool, {[labels |-> {}, others |-> 0]}, {TRUE})

ReadTasklistRow == ReadRowFrom(TasklistRowPool, MaxTasklistRows)

TasklistNext ==
    \/ FindProjectUser
    \/ FindProjectOrg
    \/ GetStatusFieldInfo
    \/ ReadTasklistRow
    \/ EnsureLabelsFetch
    \/ EnsureLabelsCreate
    \/ CreateIssue
    \/ AddIssueToProject
    \/ SetStatus
    \/ EndOfFile
    \/ TasklistLookup
    \/ TasklistFetch
    \/ TasklistUpdate

TasklistSpec == TasklistInit /\ [][TasklistNext]_vars


(***************************************************************************)
(* Vocabulary of the properties, stated on the inputs and on the calls     *)
(* issued, without the program's own parsing.                              *)
(***************************************************************************)
LogIdx == 1..Len(log)

GqlOps == {"q_user", "q_org", "add_item", "set_field"}

RestOps == {"get_labels", "post_label", "post_issue", "get_issue", "patch_issue"}

\* A call failed: a graph call answered with a status other than 200 or with
\* an errors field, a resource call answered with a status of 400 or more.
CallFailed(e) ==
    IF e.op \in GqlOps THEN e.rsp.status # 200 \/ e.rsp.errors
    ELSE e.rsp.status >= 400

\* A cell that is missing, empty or made of blanks only.
BlankCell(c) == c = None \/ \A i \in 1..Len(c) : c[i] \in Whitespace

Titled(i) == ~BlankCell(rows[i].Title)

CallsOf(op) == {i \in LogIdx : log[i].op = op}

CallsOfRow(op, r) == {i \in LogIdx : log[i].op = op /\ log[i].row = r}

RowHandling == {"get_labels", "post_label", "post_issue", "add_item", "set_status"}

\* C1: a row whose Title cell is missing, empty or blank gets no remote call
\* of any kind, is not counted as created (the counter never exceeds the
\* number of titled rows read), and leaves main between rows: right after
\* such a row the run is not inside a row's handling, and the variant
\* without a post-pass has not terminated with an error.
C1_UntitledRowSkipped ==
    /\ \A r \in 1..Len(rows) :
          ~Titled(r) => \A i \in LogIdx : log[i].row # r
    /\ created <= Cardinality({r \in 1..Len(rows) : Titled(r)})
    /\ (rows # <<>> /\ ~Titled(Len(rows))) =>
          /\ pc \notin RowHandling
          /\ created = Cardinality({r \in 1..(Len(rows) - 1) : Titled(r)})
          /\ (~linkParents => pc # "exit")

\* A row with a blank title and a label was skipped, and the row after it
\* got its calls and was counted.
C1_Witness ==
    /\ \E r \in 1..Len(rows) :
          /\ rows[r].Title = <<" ">>
          /\ rows[r].Labels = Txt_x
          /\ \E i \in LogIdx : log[i].row > r
    /\ created >= 1

\* C4: fail-fast.  A failed call is the last call the run issues, belongs to
\* the last row read, and leaves the run terminated with exit code 1; no call
\* deletes anything, so what was created before remains on the service:
\* every issue whose creation succeeded and every label whose creation
\* succeeded.
C4_FailFast ==
    /\ \A i \in LogIdx : CallFailed(log[i]) =>
          /\ i = Len(log)
          /\ pc = "exit"
          /\ exitCode = 1
          /\ log[i].row \in {0, Len(rows)}
    /\ \A i \in LogIdx : log[i].op \in GqlOps \cup RestOps
    /\ Len(issues) = Cardinality({i \in CallsOf("post_issue") : ~CallFailed(log[i])})
    /\ \A i \in CallsOf("post_label") : ~CallFailed(log[i]) => log[i].arg \in repoLabels

\* A call failed after an issue and a label had been created.
C4_Witness ==
    /\ log # <<>>
    /\ CallFailed(log[Len(log)])
    /\ log[Len(log)].rsp.errors
    /\ Len(issues) >= 1
    /\ \E i \in CallsOf("post_label") : ~CallFailed(log[i])
    /\ pc = "exit"

\* The project has a field named Status, in any case, that carries options.
HasStatusField(p) ==
    \E i \in 1..Len(p.fields) :
        Lower(p.fields[i].name) = StatusLit /\ p.fields[i].hasOptions

ResolutionOps == {"q_user", "q_org"}

\* C7: every call other than the project queries is preceded by a successful
\* project query and made with a resolved project that has a Status field
\* with options; when the resolved project has none, the run terminates with
\* an error having issued nothing but project queries.
C7_StatusFieldBeforeAnyWrite ==
    /\ \A i \in LogIdx : log[i].op \notin ResolutionOps =>
          /\ projectId # NoId
          /\ HasStatusField(project)
          /\ fieldId # NoId
          /\ \E j \in 1..(i - 1) :
                log[j].op \in ResolutionOps /\ ~CallFailed(log[j])
    /\ (projectId # NoId /\ ~HasStatusField(project) /\ pc # "status_field") =>
          /\ pc = "exit"
          /\ exitCode = 1
          /\ rows = <<>>
          /\ \A i \in LogIdx : log[i].op \in ResolutionOps

\* The organization's project was resolved, it has no Status field with
\* options, and the run has terminated.
C7_Witness ==
    /\ projectId = "PVT_nostatus"
    /\ cause = "no status field"
    /\ Len(log) = 2
    /\ pc = "exit"

\* The Labels cell names at least one label: it has a character that is
\* neither a blank nor a comma.
HasLabels(row) ==
    /\ row.Labels # None
    /\ \E i \in 1..Len(row.Labels) : row.Labels[i] \notin Whitespace \cup {","}

RowOps == {"get_labels", "post_label", "post_issue", "add_item", "set_field"}

\* The call at position i opens the handling of its row: what precedes it is
\* the resolution or the successful status update of an earlier row.
OpensRow(i) ==
    /\ i > 1
    /\ \/ log[i - 1].op \in ResolutionOps
       \/ log[i - 1].op = "set_field" /\ log[i - 1].row < log[i].row

SameRowAfter(i, ops) ==
    /\ i > 1
    /\ log[i - 1].row = log[i].row
    /\ log[i - 1].op \in ops

StatusFieldOptions(p) ==
    LET i == CHOOSE k \in 1..Len(p.fields) :
                 /\ Lower(p.fields[k].name) = StatusLit /\ p.fields[k].hasOptions
                 /\ \A j \in 1..(k - 1) :
                       ~(Lower(p.fields[j].name) = StatusLit /\ p.fields[j].hasOptions)
    IN  p.fields[i].options

\* trim(lowercase(text))
Norm(text) == Strip(Lower(text))

\* The normalized status of a row: of its Status cell, or of "Todo" when the
\* cell is missing or blank.
RowStatus(r) == IF BlankCell(rows[r].Status) THEN Norm(Todo) ELSE Norm(rows[r].Status)

\* Positions of the options whose normalized name is the row's status.
Matching(r) ==
    {k \in 1..Len(StatusFieldOptions(project)) :
        Norm(StatusFieldOptions(project)[k].name) = RowStatus(r)}

Max(S) == CHOOSE m \in S : \A n \in S : n <= m

\* C10: a row's status is validated after its issue is created and attached.
\* When the status of the row being handled matches no option the run
\* terminates with code 1, one create-issue and one add-to-project call made
\* for the row and no field update; no field update is ever issued for a row
\* whose status matches no option.  The numbers of calls issued satisfy
\* status updates <= attachments <= issue creations, adjacent ones apart by
\* at most 1.
C10_StatusValidatedLate ==
    /\ cause = "status not found" =>
          /\ pc = "exit" /\ exitCode = 1
          /\ Matching(Len(rows)) = {}
          /\ Cardinality(CallsOfRow("post_issue", Len(rows))) = 1
          /\ Cardinality(CallsOfRow("add_item", Len(rows))) = 1
          /\ CallsOfRow("set_field", Len(rows)) = {}
          /\ log[Len(log)].op = "add_item" /\ ~CallFailed(log[Len(log)])
    /\ \A i \in CallsOf("set_field") : Matching(log[i].row) # {}
    /\ LET nIssue == Cardinality(CallsOf("post_issue"))
           nAttach == Cardinality(CallsOf("add_item"))
           nStatus == Cardinality(CallsOf("set_field"))
       IN  /\ nStatus <= nAttach /\ nAttach <= nIssue
           /\ nAttach - nStatus <= 1 /\ nIssue - nAttach <= 1
           /\ created <= nStatus /\ Len(items) <= nAttach /\ Len(issues) <= nIssue

\* The second row's status names no option: the run ended after creating and
\* attaching the row's issue.
C10_Witness ==
    /\ cause = "status not found"
    /\ Len(rows) = 2
    /\ Len(issues) = 2
    /\ Len(items) = 2 /\ items[2] = NoId
    /\ created = 1

\* C6 as stated: whenever a row's status, normalized, equals the normalized
\* name of an option P, the run does not reject the status and the field
\* update it issues carries P's option id, for every such P; and two rows of
\* the same normalized status get the same option id.
C6_AsStated ==
    /\ cause = "status not found" => Matching(Len(rows)) = {}
    /\ \A i \in CallsOf("set_field") :
          \A k \in Matching(log[i].row) :
              log[i].arg = << StatusFieldOptions(project)[k].id >>
    /\ \A i, j \in CallsOf("set_field") :
          RowStatus(log[i].row) = RowStatus(log[j].row) => log[i].arg = log[j].arg

\* C6, amended: whenever a row's status, normalized, equals the normalized
\* name of an option, the run does not reject the status and the field
\* update it issues carries the id of the last option of that normalized
\* name (of the option itself when no other option shares the name); two
\* rows of the same normalized status get the same option id.
C6_StatusResolution ==
    /\ cause = "status not found" => Matching(Len(rows)) = {}
    /\ \A i \in CallsOf("set_field") :
          /\ Matching(log[i].row) # {}
          /\ log[i].arg = << StatusFieldOptions(project)[Max(Matching(log[i].row))].id >>
          /\ ~CallFailed(log[i]) => items[log[i].issue] = log[i].arg[1]
    /\ \A i, j \in CallsOf("set_field") :
          RowStatus(log[i].row) = RowStatus(log[j].row) => log[i].arg = log[j].arg

\* Two rows whose statuses differ in case and blanks were both given the
\* option stored as " Done ".
C6_Witness ==
    /\ Len(rows) = 2
    /\ rows[1].Status = <<" ", "d", "o", "n", "e", " ">>
    /\ rows[2].Status = <<"D", "O", "N", "E">>
    /\ projectId = "PVT_good"
    /\ items = << "opt_done", "opt_done" >>

\* The labels a row asks for, as a set.
LabelSet(r) == Range(ParseRow(rows[r]).labels)

\* ensure_labels returned for row r: its fetch and all its creations
\* succeeded, and create_issue went on to post the issue.
EnsureReturned(r) == CallsOfRow("post_issue", r) # {}

\* The number of labels the repository held when row r's fetch was made.
LabelsAtFetch(r) == log[CHOOSE i \in CallsOfRow("get_labels", r) : TRUE].arg[1]

\* Pairs of ensure_labels calls with the same non-empty label set, the first
\* returned, the second past its fetch.
EnsurePairs ==
    {p \in (1..Len(rows)) \X (1..Len(rows)) :
        /\ p[1] < p[2]
        /\ CallsOfRow("get_labels", p[1]) # {}
        /\ EnsureReturned(p[1])
        /\ \E i \in CallsOfRow("get_labels", p[2]) : ~CallFailed(log[i])
        /\ LabelSet(p[1]) = LabelSet(p[2])}

\* C5 as stated: when the repository held at most 100 labels before the
\* first call, the second call creates nothing.
C5_AsStated ==
    \A p \in EnsurePairs :
        LabelsAtFetch(p[1]) <= PerPage => CallsOfRow("post_label", p[2]) = {}

\* C5, amended: when the repository, the first call's creations included,
\* holds at most 100 labels at the second call's fetch, the second call
\* creates nothing.
C5_EnsureLabelsIdempotent ==
    \A p \in EnsurePairs :
        LabelsAtFetch(p[2]) <= PerPage => CallsOfRow("post_label", p[2]) = {}

\* A first call created two labels, and a second call with the same labels
\* returned without creating any.
C5_Witness ==
    /\ Len(rows) = 2
    /\ rows[1].Labels = <<" ", "x", " ", ",", ",", "y">>
    /\ rows[2].Labels = rows[1].Labels
    /\ Cardinality(CallsOfRow("post_label", 1)) = 2
    /\ EnsureReturned(2)
    /\ CallsOfRow("post_label", 2) = {}

Distinct(seq) ==
    \A i, j \in 1..Len(seq) : i # j => seq[i] # seq[j]

\* C8 as stated: the labels parsed from the row in hand are pairwise
\* different after trimming and lower-casing, and no two create-label calls
\* of one row carry names equal after trimming and lower-casing.
C8_AsStated ==
    /\ Distinct([i \in 1..Len(cur.labels) |-> Norm(cur.labels[i])])
    /\ \A r \in 1..Len(rows) :
          \A i, j \in CallsOfRow("post_label", r) :
              i # j => Norm(log[i].arg) # Norm(log[j].arg)

\* C2 as stated: when the user lookup yields no project (the user null, or
\* its project null) and the organization lookup yields a project, then,
\* unless a call fails, find_project returns the organization's project id
\* and the run goes on; the organization is queried only when the user
\* lookup yielded no project.
C2_AsStated ==
    /\ ( /\ owner.user.kind # "project"
         /\ owner.org.kind = "project"
         /\ \A i \in LogIdx : ~CallFailed(log[i])
         /\ pc \notin {"q_user", "q_org"} )
       => /\ projectId = owner.org.proj.id
          /\ cause \notin {"AttributeError", "project not found"}
    /\ CallsOf("q_org") # {} =>
          /\ owner.user.kind # "project"
          /\ \E i \in CallsOf("q_user") : ~CallFailed(log[i])

(***************************************************************************)
(* Vocabulary of the tasklist properties, stated on the records read.      *)
(***************************************************************************)
TitledRows == {r \in 1..Len(rows) : Titled(r)}

\* The parent a titled row names (empty: none).
ParentOf(r) == IF BlankCell(rows[r].Parent) THEN <<>> ELSE Strip(rows[r].Parent)

ParentNames == {ParentOf(r) : r \in TitledRows} \ {<<>>}

RowsTitled(t) == {r \in TitledRows : Strip(rows[r].Title) = t}

RowsNaming(t) == {r \in TitledRows : ParentOf(r) = t}

Min(S) == CHOOSE m \in S : \A n \in S : m <= n

\* Parents no row of the batch created.
MissingParents == {t \in ParentNames : RowsTitled(t) = {}}

\* The number of the issue of titled row r when every row before it got its
\* issue: its rank among the titled rows.
IssueOfRow(r) == Cardinality({q \in TitledRows : q <= r})

\* The parent's issue: of the last row that carries the title.
ParentIssue(t) == IssueOfRow(Max(RowsTitled(t)))

RECURSIVE LinesFrom(_, _)
LinesFrom(t, r) ==
    IF r > Len(rows) THEN <<>>
    ELSE IF r \in RowsNaming(t)
      THEN << "- [ ] #", ToString(IssueOfRow(r)), " - " >> \o Strip(rows[r].Title)
              \o << "\n" >> \o LinesFrom(t, r + 1)
      ELSE LinesFrom(t, r + 1)

\* The body the parent of title t is to get: the body its issue was created
\* with, the header, one line per child in input order.
ExpectedBody(t) ==
    LET r == Max(RowsTitled(t))
        body == IF BlankCell(rows[r].Body) THEN <<>> ELSE Strip(rows[r].Body)
    IN  body \o << "\n\n## Subtasks\n" >> \o LinesFrom(t, 1)

LastStatusUpdate == IF CallsOf("set_field") = {} THEN 0 ELSE Max(CallsOf("set_field"))

\* Parent t got exactly one body update, after the last status update, on
\* its issue and with the expected body, which the service now holds.
UpdatedOnce(t) ==
    \E i \in CallsOf("patch_issue") :
        /\ log[i].issue = ParentIssue(t)
        /\ log[i].arg = ExpectedBody(t)
        /\ i > LastStatusUpdate
        /\ i > 1 /\ log[i - 1].op = "get_issue" /\ log[i - 1].issue = ParentIssue(t)
        /\ \A j \in CallsOf("patch_issue") : log[j].issue = ParentIssue(t) => j = i
        /\ ~CallFailed(log[i]) => issues[ParentIssue(t)].body = ExpectedBody(t)

\* A run that ended well named only parents the batch created and updated
\* each of them once, and nothing else.
AllParentsUpdated ==
    (pc = "done" /\ linkParents) =>
        /\ MissingParents = {}
        /\ \A t \in ParentNames : UpdatedOnce(t)
        /\ Cardinality(CallsOf("patch_issue")) = Cardinality(ParentNames)

\* Parents first named before every missing parent.
NamedBeforeMissing ==
    {t \in ParentNames :
        \A m \in MissingParents : Min(RowsNaming(t)) < Min(RowsNaming(m))}

====
